---- MODULE Spec2Model ----
(***************************************************************************)
(* Model of the DBIS API client (src/c-client/src/dbis_api_client.c): the  *)
(* session struct DBISClient, the command loop of main and the handlers    *)
(* register_user, login, grant_role, revoke_role and logout (Spec); and of *)
(* the socket client (src/client/src/client.c, main.c): the client_*       *)
(* functions called in any order (SockSpec), the run of its main           *)
(* (MainSpec) and client_parse_json_response (ParseSpec).                  *)
(*                                                                         *)
(* C strings are sequences of one-character strings; a char buffer holds   *)
(* the text up to its first NUL.  A json-c object pointer is a record with *)
(* a tag t; the NULL pointer and the JSON literal null are both JNull, as  *)
(* in json-c.                                                              *)
(***************************************************************************)
EXTENDS Integers, Sequences, FiniteSets, TLC

\* the DBIS API client: the session, the position of main, the calls of
\* curl_easy_perform so far, the record of the handler that ran last
VARIABLES client, pc, netCalls, last

\* the socket client (src/client/src): the static sock_fd, the descriptors the
\* process holds open, whether a connection stands, the record of the client_*
\* function that ran last, the run of main, and the buffers of
\* client_parse_json_response
VARIABLES sock_fd, open_fds, connected, call, mainrun, parse

apivars == <<client, pc, netCalls, last>>

sockvars == <<sock_fd, open_fds, connected, call, mainrun, parse>>

vars == <<client, pc, netCalls, last, sock_fd, open_fds, connected, call, mainrun, parse>>

(***************************************************************************)
(* Program constants.                                                      *)
(***************************************************************************)
MAX_URL_LENGTH == 256
MAX_TOKEN_LENGTH == 512
USER_ID_SIZE == 64

(***************************************************************************)
(* Bounds of the model.                                                    *)
(***************************************************************************)
MaxCalls == 2

\* descriptors the process may hold beside the standard three
MaxOpen == 3

\* pieces a server answer is put together from
MaxPieces == 3

(***************************************************************************)
(* Text helpers.                                                           *)
(***************************************************************************)
Fill(n) == [i \in 1..n |-> "x"]

Text2(a, b) == <<a, b>>

DEFAULT_BASE_URL == <<"h", "t", "t", "p", ":", "/", "/", "l", "o", "c", "a", "l", "h", "o", "s", "t", ":", "3", "0", "0", "0">>

\* strncpy(dst, src, size - 1); dst[size - 1] = '\0';  read back as a C string
StrncpyTerminatedNoRoom(src, size) == SubSeq(src, 1, IF Len(src) < size THEN Len(src) ELSE size)

StrncpyTerminated(src, size) == SubSeq(src, 1, IF Len(src) < size - 1 THEN Len(src) ELSE size - 1)

(***************************************************************************)
(* json-c values.                                                          *)
(***************************************************************************)
JNull == [t |-> "null"]

JString(s) == [t |-> "string", s |-> s]

JInt(s) == [t |-> "int", s |-> s]

JObject(kv) == [t |-> "object", kv |-> kv]

JArray(a) == [t |-> "array", a |-> a]

\* the characters of the member names that occur in the answers
KeyText(k) ==
    CASE k = "id" -> <<"i", "d">>
      [] k = "hash" -> <<"h", "a", "s", "h">>
      [] OTHER -> <<"k">>

\* json_object_to_json_string, in the default JSON_C_TO_STRING_SPACED format
\* (the texts used here hold no character that json-c would escape)
RECURSIVE json_object_to_json_string(_)
RECURSIVE json_members_to_string(_, _)
json_members_to_string(kv, i) ==
    IF i > Len(kv) THEN <<>>
    ELSE (IF i > 1 THEN <<",">> ELSE <<>>)
         \o <<" ", "\"">> \o KeyText(kv[i].k) \o <<"\"", ":", " ">>
         \o json_object_to_json_string(kv[i].v)
         \o json_members_to_string(kv, i + 1)

RECURSIVE json_elements_to_string(_, _)
json_elements_to_string(a, i) ==
    IF i > Len(a) THEN <<>>
    ELSE (IF i > 1 THEN <<",">> ELSE <<>>)
         \o <<" ">> \o json_object_to_json_string(a[i])
         \o json_elements_to_string(a, i + 1)

json_object_to_json_string(jso) ==
    CASE jso.t = "null" -> <<"n", "u", "l", "l">>
      [] jso.t = "string" -> <<"\"">> \o jso.s \o <<"\"">>
      [] jso.t = "int" -> jso.s
      [] jso.t = "object" -> <<"{">> \o json_members_to_string(jso.kv, 1) \o <<" ", "}">>
      [] jso.t = "array" -> <<"[">> \o json_elements_to_string(jso.a, 1) \o <<" ", "]">>

\* json_object_object_get_ex: the found flag
json_object_object_get_ex(jso, key) ==
    /\ jso.t = "object"
    /\ \E i \in 1..Len(jso.kv) : jso.kv[i].k = key

\* json_object_object_get_ex: the out-parameter, NULL when nothing is found
json_object_object_get(jso, key) ==
    IF json_object_object_get_ex(jso, key)
    THEN jso.kv[CHOOSE i \in 1..Len(jso.kv) : jso.kv[i].k = key].v
    ELSE JNull

\* json_object_get_string returns NULL for a NULL object
json_object_get_string_is_null(jso) == jso.t = "null"

\* json_object_get_string: the text of a string, the serialisation of any
\* other object (the NULL result is json_object_get_string_is_null)
json_object_get_string(jso) ==
    IF jso.t = "string" THEN jso.s ELSE json_object_to_json_string(jso)

(***************************************************************************)
(* The session struct.                                                     *)
(***************************************************************************)
SessionFields == {"token", "user_id", "is_logged_in"}

init_client(base_url) ==
    [base_url     |-> StrncpyTerminated(base_url, MAX_URL_LENGTH),
     token        |-> <<>>,
     user_id      |-> <<>>,
     is_logged_in |-> FALSE]

\* The assignments of a handler, in program order, as <<field, value>> pairs.
RECURSIVE ApplyWrites(_, _)
ApplyWrites(c, ws) ==
    IF ws = <<>> THEN c
    ELSE ApplyWrites([c EXCEPT ![ws[1][1]] = ws[1][2]], Tail(ws))

Written(ws) == {ws[i][1] : i \in 1..Len(ws)}

logout_writes_keep_token(c) ==
    << <<"user_id", <<>> >>, <<"is_logged_in", FALSE>> >>

logout_writes_clear_url(c) ==
    << <<"token", <<>> >>, <<"user_id", <<>> >>, <<"is_logged_in", FALSE>>,
       <<"base_url", <<>> >> >>

logout_writes(c) ==
    << <<"token", <<>> >>, <<"user_id", <<>> >>, <<"is_logged_in", FALSE>> >>

(***************************************************************************)
(* What is recorded about the handler that ran last.                       *)
(***************************************************************************)
NoBody == [kind |-> "none", v |-> JNull]

NoCall(op, choice, pre) ==
    [op |-> op, choice |-> choice, pre |-> pre, ret |-> "void", msg |-> "none",
     calls |-> 0, res |-> "none", http_code |-> 0, cause |-> "none",
     body |-> NoBody, shown |-> NoBody, parsed |-> FALSE, written |-> {},
     bearer |-> [sent |-> FALSE, header |-> <<>>], tx_hash |-> <<>>,
     input |-> <<>>, payload |-> JNull,
     display_name |-> <<>>, roles |-> [printed |-> FALSE, text |-> <<>>]]

(***************************************************************************)
(* What the server and the transport may answer.                           *)
(***************************************************************************)
CurlCodes == {"CURLE_OK", "CURLE_COULDNT_CONNECT"}

HttpCodes == {0, 200, 399, 400, 401}

\* an answer: did curl_easy_init give a handle, the CURLcode, the status
\* read by curl_easy_getinfo, and the bytes handed to write_callback
Answer(curl, res, http_code, body) ==
    [curl |-> curl, res |-> res, http_code |-> http_code, body |-> body]

curl_easy_strerror(res) ==
    IF res = "CURLE_OK" THEN "No error" ELSE "Couldn't connect to server"

IdStrings == {<<>>, Text2("u", "1"), Fill(USER_ID_SIZE - 1), Fill(USER_ID_SIZE)}

TokenStrings == {<<>>, Text2("t", "1"), Fill(MAX_TOKEN_LENGTH - 1), Fill(MAX_TOKEN_LENGTH)}

Absent == [t |-> "absent"]

Member(k, v) == IF v = Absent THEN <<>> ELSE <<[k |-> k, v |-> v]>>

IdJson == {Absent, JNull, JInt(<<"7">>)} \cup {JString(s) : s \in IdStrings}

UserJson == {Absent, JString(<<"x">>)} \cup {JObject(Member("id", i)) : i \in IdJson}

TokenJson == {Absent, JNull} \cup {JString(s) : s \in TokenStrings}

AuthDoc(u, t) == JObject(Member("user", u) \o Member("token", t))

\* every kind of user beside a plain token, every kind of token beside a plain
\* user, both at the capacity of their buffers and beyond, and neither
AuthDocs ==
    {AuthDoc(u, JString(Text2("t", "1"))) : u \in UserJson}
    \cup {AuthDoc(JObject(Member("id", JString(Text2("u", "1")))), t) : t \in TokenJson}
    \cup {AuthDoc(JObject(Member("id", JString(Fill(USER_ID_SIZE - k)))),
                  JString(Fill(MAX_TOKEN_LENGTH - k))) : k \in {0, 1}}
    \cup {AuthDoc(Absent, Absent)}

\* a body of zero bytes, a body that is not JSON, and JSON documents
EmptyBody == [kind |-> "empty", v |-> JNull]

TextBody == [kind |-> "text", v |-> JNull]

JsonBody(v) == [kind |-> "json", v |-> v]

\* user.id or token of a kind that is neither a string nor a number
KindDocs ==
    {JObject(Member("user", JObject(Member("id", JObject(<<>>))))
             \o Member("token", JString(Text2("t", "1")))),
     JObject(Member("user", JObject(Member("id", JString(Text2("u", "1")))))
             \o Member("token", JObject(<<>>))),
     JObject(Member("user", JObject(Member("id", JString(Text2("u", "1")))))
             \o Member("token", JArray(<<JString(<<"a">>)>>)))}

Bodies ==
    {EmptyBody, TextBody, JsonBody(JString(<<"o", "k">>))}
    \cup {JsonBody(d) : d \in AuthDocs \cup KindDocs}

\* resp.data = malloc(1) is written by write_callback only; when no byte
\* arrived its first byte is uninitialised: it reads as "" or as stray bytes
Garbage == [kind |-> "garbage", v |-> JNull]

SampleDoc ==
    JObject(Member("user", JObject(Member("id", JString(Text2("u", "1")))))
            \o Member("token", JString(Text2("t", "1"))))

\* variant: an empty body leaves the text of an earlier answer in resp.data
resp_data_stale(body) == IF body.kind = "empty" THEN {JsonBody(SampleDoc)} ELSE {body}

resp_data(body) == IF body.kind = "empty" THEN {EmptyBody, Garbage} ELSE {body}

json_tokener_parse(data) == IF data.kind = "json" THEN data.v ELSE JNull

request_failed_gt(res, http_code) == res # "CURLE_OK" \/ http_code > 400

request_failed_and(res, http_code) == res # "CURLE_OK" /\ http_code >= 400

request_failed(res, http_code) == res # "CURLE_OK" \/ http_code >= 400

perform_count_retry(curl, res) == IF curl THEN (IF res # "CURLE_OK" THEN 2 ELSE 1) ELSE 0

\* if (curl) { ... res = curl_easy_perform(curl); ... }
perform_count(curl, res) == IF curl THEN 1 ELSE 0

\* the assignments that ran before strncpy read a NULL source
executed_writes(ws, user_id_obj, token_obj) ==
    IF json_object_get_string_is_null(user_id_obj) THEN <<>>
    ELSE IF json_object_get_string_is_null(token_obj) THEN SubSeq(ws, 1, 1)
    ELSE ws

killed(user_id_obj, token_obj) ==
    \/ json_object_get_string_is_null(user_id_obj)
    \/ json_object_get_string_is_null(token_obj)

\* a few bodies of each kind, for the answers whose body is never parsed
SampleBodies == {EmptyBody, TextBody, JsonBody(SampleDoc)}

\* a transfer that failed may still have seen a status line and some bytes
FailedAnswers ==
    {Answer(TRUE, "CURLE_COULDNT_CONNECT", 0, EmptyBody),
     Answer(TRUE, "CURLE_COULDNT_CONNECT", 200, JsonBody(SampleDoc)),
     Answer(TRUE, "CURLE_COULDNT_CONNECT", 400, TextBody)}

Answers ==
    {Answer(FALSE, "CURLE_OK", 0, EmptyBody)}
    \cup FailedAnswers
    \cup {Answer(TRUE, "CURLE_OK", h, b) : h \in {399, 400, 401}, b \in SampleBodies}
    \cup {Answer(TRUE, "CURLE_OK", 200, b) : b \in Bodies}

BaseUrls == {DEFAULT_BASE_URL, Fill(MAX_URL_LENGTH)}

(***************************************************************************)
(* The socket client at program start (src/client/src/client.c, main.c).   *)
(***************************************************************************)
EXIT_SUCCESS == 0

EXIT_FAILURE == 1

\* char buffer[1024] of main
BUFFER_SIZE == 1024

\* standard input, output and error are open; socket() gives the lowest free
\* descriptor after them, and fails once MaxOpen more are open
STDERR_FILENO == 2

Descriptors == (STDERR_FILENO + 1)..(STDERR_FILENO + MaxOpen)

\* the record of a client_* call that did nothing yet: the state it started
\* in, the descriptors socket() gave it, its send() and recv() calls, and the
\* descriptors it passed to close() with what close() did
NoSockCall(op, fd, open, conn) ==
    [op |-> op, ret |-> 0, msg |-> "none",
     pre |-> [sock_fd |-> fd, open_fds |-> open, connected |-> conn],
     opened |-> <<>>, sends |-> 0, recvs |-> 0, closed |-> <<>>]

\* static int sock_fd = -1;
SockInit ==
    /\ sock_fd = -1
    /\ open_fds = {}
    /\ connected = FALSE
    /\ call = NoSockCall("none", -1, {}, FALSE)

\* main has not started
NoRun == [pc |-> "none", argc |-> 0, server_ip |-> <<>>, port |-> 0,
          status |-> EXIT_SUCCESS, trace |-> <<>>]

\* client_parse_json_response has not been called
NoParse == [called |-> FALSE, json_str |-> <<>>, ret |-> 0,
            status |-> <<>>, message |-> <<>>, user |-> <<>>,
            status_size |-> 0, message_size |-> 0, user_size |-> 0, user_null |-> FALSE]

Init ==
    /\ \E base_url \in BaseUrls :
         /\ client = init_client(base_url)
         /\ last = NoCall("init_client", 0, init_client(base_url))
    /\ pc = "menu"
    /\ netCalls = 0
    /\ SockInit
    /\ mainrun = NoRun
    /\ parse = NoParse

(***************************************************************************)
(* display_menu and the switch of main                                     *)
(***************************************************************************)
Digits == <<"0", "1", "2", "3", "4", "5", "6", "7", "8", "9">>

IsDigit(ch) == \E d \in 1..10 : Digits[d] = ch

DigitValue(ch) == (CHOOSE d \in 1..10 : Digits[d] = ch) - 1

\* the digits read so far are worth acc; stop at the first non-digit
RECURSIVE atoi_digits(_, _, _)
atoi_digits(s, i, acc) ==
    IF i > Len(s) \/ ~IsDigit(s[i]) THEN acc
    ELSE atoi_digits(s, i + 1, acc * 10 + DigitValue(s[i]))

RECURSIVE atoi_from(_, _)
atoi_from(s, i) ==
    IF i > Len(s) THEN 0
    ELSE IF s[i] = " " THEN atoi_from(s, i + 1)
    ELSE IF s[i] = "-" THEN 0 - atoi_digits(s, i + 1, 0)
    ELSE IF s[i] = "+" THEN atoi_digits(s, i + 1, 0)
    ELSE atoi_digits(s, i, 0)

\* atoi: blanks, an optional sign, then digits; 0 when no digit is there
atoi(s) == atoi_from(s, 1)

\* the lines typed at "Enter your choice: ", shorter than choice_str
MenuLines ==
    {<<"0">>, <<"1">>, <<"2">>, <<"1", "4">>, <<"1", "5">>, <<"1", "6">>,
     <<"3">>, <<"1", "3">>, <<"1", "7">>, <<"-", "1">>, <<"x">>, <<>>}

\* display_menu
display_menu == {atoi(line) : line \in MenuLines}

ImplementedChoices == {0, 1, 2, 14, 15, 16}

\* default: of the switch
main_default_case(choice) == choice \notin ImplementedChoices

(***************************************************************************)
(* register_user                                                           *)
(***************************************************************************)
register_user_fields_found(response_json) ==
    /\ json_object_object_get_ex(response_json, "user")
    /\ json_object_object_get_ex(json_object_object_get(response_json, "user"), "id")
    /\ json_object_object_get_ex(response_json, "token")

register_user_writes(user_id_obj, token_obj) ==
    << <<"user_id", StrncpyTerminated(json_object_get_string(user_id_obj), USER_ID_SIZE)>>,
       <<"token", StrncpyTerminated(json_object_get_string(token_obj), MAX_TOKEN_LENGTH)>>,
       <<"is_logged_in", TRUE>> >>

\* the six lines read from the terminal, newline stripped
RegisterInput(username, email, password, full_name, date_of_birth, phone_number) ==
    [username |-> username, email |-> email, password |-> password,
     full_name |-> full_name, date_of_birth |-> date_of_birth,
     phone_number |-> phone_number]

SampleInput ==
    RegisterInput(<<"a", "l", "i", "c", "e">>, <<"a", "@", "b">>,
                  <<"p", "a", "s", "s", "w", "o", "r", "d">>, <<"A", "l">>, <<>>, <<>>)

\* lines shorter than MAX_INPUT_LENGTH, so that fgets takes each of them whole
RegisterInputs ==
    {SampleInput,
     RegisterInput(<<"a", "b">>, <<"a", "@", "b">>, <<"s", "h", "o", "r", "t">>,
                   <<"A", "l">>, <<"2", "0", "0", "0">>, <<>>),
     RegisterInput(<<"a", "b", "c">>, <<"a", "@", "b">>,
                   <<"p", "a", "s", "s", "w", "o", "r">>, <<"A", "l">>, <<" ">>, <<"5", "5">>),
     RegisterInput(<<>>, <<>>, <<>>, <<>>, <<>>, <<"5", "5">>)}

register_payload_always_dob(in) ==
    JObject(<<[k |-> "username", v |-> JString(in.username)],
              [k |-> "email", v |-> JString(in.email)],
              [k |-> "password", v |-> JString(in.password)],
              [k |-> "fullName", v |-> JString(in.full_name)],
              [k |-> "dateOfBirth", v |-> JString(in.date_of_birth)]>>
            \o (IF Len(in.phone_number) > 0
                THEN <<[k |-> "phoneNumber", v |-> JString(in.phone_number)]>> ELSE <<>>))

\* json_object_new_object and the json_object_object_add calls, in order
register_payload(in) ==
    JObject(<<[k |-> "username", v |-> JString(in.username)],
              [k |-> "email", v |-> JString(in.email)],
              [k |-> "password", v |-> JString(in.password)],
              [k |-> "fullName", v |-> JString(in.full_name)]>>
            \o (IF Len(in.date_of_birth) > 0
                THEN <<[k |-> "dateOfBirth", v |-> JString(in.date_of_birth)]>> ELSE <<>>)
            \o (IF Len(in.phone_number) > 0
                THEN <<[k |-> "phoneNumber", v |-> JString(in.phone_number)]>> ELSE <<>>))

\* every answer to the sample input, and every input with a few answers
RegisterRuns ==
    {<<SampleInput, a>> : a \in Answers}
    \cup {<<in, a>> : in \in RegisterInputs,
                     a \in {Answer(FALSE, "CURLE_OK", 0, EmptyBody),
                            Answer(TRUE, "CURLE_OK", 200, JsonBody(SampleDoc)),
                            Answer(TRUE, "CURLE_OK", 400, TextBody)}}

\* the handler from curl_easy_init on: the new session, the new pc, the record
register_user_result(c, curl, res, http_code, body, data) ==
    LET base == [NoCall("register_user", 1, c) EXCEPT
                    !.calls = perform_count(curl, res), !.ret = "false"]
        sent == [base EXCEPT !.res = res, !.http_code = http_code, !.body = body]
        response_json == json_tokener_parse(data)
        user_obj == json_object_object_get(response_json, "user")
        user_id_obj == json_object_object_get(user_obj, "id")
        token_obj == json_object_object_get(response_json, "token")
        ws == register_user_writes(user_id_obj, token_obj)
        done == executed_writes(ws, user_id_obj, token_obj)
    IN  IF ~curl THEN [client |-> c, pc |-> "menu", last |-> base]
        ELSE IF request_failed(res, http_code)
        THEN [client |-> c, pc |-> "menu",
              last |-> [sent EXCEPT !.msg = "failed", !.cause = curl_easy_strerror(res),
                                    !.shown = data]]
        ELSE IF ~register_user_fields_found(response_json)
        THEN [client |-> c, pc |-> "menu",
              last |-> [sent EXCEPT !.ret = "true", !.msg = "couldnt_parse", !.parsed = TRUE]]
        ELSE IF killed(user_id_obj, token_obj)
        THEN [client |-> ApplyWrites(c, done), pc |-> "killed",
              last |-> [sent EXCEPT !.ret = "killed", !.parsed = TRUE,
                                    !.written = Written(done)]]
        ELSE [client |-> ApplyWrites(c, ws), pc |-> "menu",
              last |-> [sent EXCEPT !.ret = "true", !.msg = "session_set", !.parsed = TRUE,
                                    !.written = Written(ws)]]

register_user ==
    /\ UNCHANGED sockvars
    /\ pc = "menu"
    /\ 1 \in display_menu
    /\ netCalls < MaxCalls
    /\ \E run \in RegisterRuns :
         \E data \in resp_data(run[2].body) :
           LET in == run[1]
               a == run[2]
               r == register_user_result(client, a.curl, a.res, a.http_code, a.body, data)
           IN  /\ client' = r.client
               /\ pc' = r.pc
               /\ last' = [r.last EXCEPT !.input = in, !.payload = register_payload(in)]
               /\ netCalls' = netCalls + r.last.calls

(***************************************************************************)
(* login                                                                   *)
(***************************************************************************)
login_fields_found_no_token(response_json) ==
    /\ json_object_object_get_ex(response_json, "user")
    /\ json_object_object_get_ex(json_object_object_get(response_json, "user"), "id")

login_fields_found(response_json) ==
    /\ json_object_object_get_ex(response_json, "user")
    /\ json_object_object_get_ex(json_object_object_get(response_json, "user"), "id")
    /\ json_object_object_get_ex(response_json, "token")

login_writes_no_flag(user_id_obj, token_obj) ==
    << <<"user_id", StrncpyTerminated(json_object_get_string(user_id_obj), USER_ID_SIZE)>>,
       <<"token", StrncpyTerminated(json_object_get_string(token_obj), MAX_TOKEN_LENGTH)>> >>

login_writes(user_id_obj, token_obj) ==
    << <<"user_id", StrncpyTerminated(json_object_get_string(user_id_obj), USER_ID_SIZE)>>,
       <<"token", StrncpyTerminated(json_object_get_string(token_obj), MAX_TOKEN_LENGTH)>>,
       <<"is_logged_in", TRUE>> >>

\* a char pointer: NULL, or the text it points to
NullStr == [null |-> TRUE, s |-> <<>>]

CStr(jso) ==
    IF json_object_get_string_is_null(jso) THEN NullStr
    ELSE [null |-> FALSE, s |-> json_object_get_string(jso)]

\* const char *display_name = NULL; if (fullName) ... else if (username) ...
login_display_name(user_obj) ==
    IF json_object_object_get_ex(user_obj, "fullName")
    THEN CStr(json_object_object_get(user_obj, "fullName"))
    ELSE IF json_object_object_get_ex(user_obj, "username")
    THEN CStr(json_object_object_get(user_obj, "username"))
    ELSE NullStr

\* display_name ? display_name : "User"
login_welcome(display_name) ==
    IF display_name.null THEN <<"U", "s", "e", "r">> ELSE display_name.s

RECURSIVE login_roles_loop_trailing(_, _)
login_roles_loop_trailing(a, i) ==
    IF i > Len(a) THEN <<>>
    ELSE json_object_get_string(a[i]) \o <<",", " ">> \o login_roles_loop_trailing(a, i + 1)

\* for (i = 0; i < roles_len; i++) printf("%s%s", role, (i < roles_len - 1) ? ", " : "")
\* (i counts from 1 here)
RECURSIVE login_roles_loop(_, _)
login_roles_loop(a, i) ==
    IF i > Len(a) THEN <<>>
    ELSE json_object_get_string(a[i])
         \o (IF i < Len(a) THEN <<",", " ">> ELSE <<>>)
         \o login_roles_loop(a, i + 1)

\* json_object_array_length of an object that is no array reads the object as
\* an array: the process is killed, or a stray length is read and no name shown
RolesUb == {"killed", "stray"}

login_roles_outcomes(user_obj) ==
    IF json_object_object_get_ex(user_obj, "roles")
       /\ json_object_object_get(user_obj, "roles").t # "array"
    THEN RolesUb ELSE {"defined"}

login_roles(user_obj, ub) ==
    LET roles_obj == json_object_object_get(user_obj, "roles")
    IN  IF ~json_object_object_get_ex(user_obj, "roles")
        THEN [printed |-> FALSE, text |-> <<>>]
        ELSE IF roles_obj.t = "array"
        THEN [printed |-> TRUE, text |-> login_roles_loop(roles_obj.a, 1)]
        ELSE IF ub = "killed" THEN [printed |-> FALSE, text |-> <<>>]
        ELSE [printed |-> TRUE, text |-> <<>>]

\* user.fullName, user.username and user.roles of a login answer
NameJson == {Absent, JNull, JString(<<"A", "l">>), JObject(<<>>)}

UsernameJson == {Absent, JNull, JString(<<"a", "l">>)}

RolesJson ==
    {JNull, JString(<<"x">>), JArray(<<>>), JArray(<<JString(<<"A", "R">>)>>),
     JArray(<<JString(<<"U", "R">>), JString(<<"A", "R">>), JString(<<"U", "R">>)>>),
     JArray(<<JString(<<"A", "R">>), JString(<<"U", "R">>)>>)}

ProfileDoc(full_name, username, roles) ==
    JObject(Member("user", JObject(Member("id", JString(Text2("u", "1")))
                                   \o Member("fullName", full_name)
                                   \o Member("username", username)
                                   \o Member("roles", roles)))
            \o Member("token", JString(Text2("t", "1"))))

ProfileDocs ==
    {ProfileDoc(f, n, Absent) : f \in NameJson, n \in UsernameJson}
    \cup {ProfileDoc(JString(<<"A", "l">>), Absent, r) : r \in RolesJson}

LoginAnswers ==
    Answers \cup {Answer(TRUE, "CURLE_OK", 200, JsonBody(d)) : d \in ProfileDocs}

\* the handler from curl_easy_init on: the new session, the new pc, the record
login_result(c, curl, res, http_code, body, data, ub) ==
    LET base == [NoCall("login", 2, c) EXCEPT
                    !.calls = perform_count(curl, res), !.ret = "false"]
        sent == [base EXCEPT !.res = res, !.http_code = http_code, !.body = body]
        response_json == json_tokener_parse(data)
        user_obj == json_object_object_get(response_json, "user")
        user_id_obj == json_object_object_get(user_obj, "id")
        token_obj == json_object_object_get(response_json, "token")
        ws == login_writes(user_id_obj, token_obj)
        done == executed_writes(ws, user_id_obj, token_obj)
    IN  IF ~curl THEN [client |-> c, pc |-> "menu", last |-> base]
        ELSE IF request_failed(res, http_code)
        THEN [client |-> c, pc |-> "menu",
              last |-> [sent EXCEPT !.msg = "failed", !.cause = curl_easy_strerror(res),
                                    !.shown = data]]
        ELSE IF ~login_fields_found(response_json)
        THEN [client |-> c, pc |-> "menu",
              last |-> [sent EXCEPT !.ret = "true", !.msg = "couldnt_parse", !.parsed = TRUE]]
        ELSE IF killed(user_id_obj, token_obj)
        THEN [client |-> ApplyWrites(c, done), pc |-> "killed",
              last |-> [sent EXCEPT !.ret = "killed", !.parsed = TRUE,
                                    !.written = Written(done)]]
        ELSE [client |-> ApplyWrites(c, ws),
              pc |-> IF ub = "killed" THEN "killed" ELSE "menu",
              last |-> [sent EXCEPT !.ret = IF ub = "killed" THEN "killed" ELSE "true",
                                    !.msg = "session_set", !.parsed = TRUE,
                                    !.written = Written(ws),
                                    !.display_name = login_welcome(login_display_name(user_obj)),
                                    !.roles = login_roles(user_obj, ub)]]

login ==
    /\ UNCHANGED sockvars
    /\ pc = "menu"
    /\ 2 \in display_menu
    /\ netCalls < MaxCalls
    /\ \E a \in LoginAnswers :
         \E data \in resp_data(a.body) :
         \E ub \in login_roles_outcomes(json_object_object_get(json_tokener_parse(data), "user")) :
           LET r == login_result(client, a.curl, a.res, a.http_code, a.body, data, ub)
           IN  /\ client' = r.client
               /\ pc' = r.pc
               /\ last' = r.last
               /\ netCalls' = netCalls + r.last.calls

(***************************************************************************)
(* grant_role and revoke_role                                              *)
(***************************************************************************)
\* "0x" and 64 more characters, the length of a transaction hash
LongHash == <<"0", "x">> \o Fill(USER_ID_SIZE)

TxJson == {Absent, JString(<<"x">>), JObject(<<>>),
           JObject(Member("hash", JString(<<"0", "x", "a", "b", "c">>))),
           JObject(Member("hash", JString(LongHash))),
           JObject(Member("hash", JInt(<<"7">>))),
           JObject(Member("hash", JNull))}

RoleBodies == {EmptyBody, TextBody} \cup {JsonBody(JObject(Member("transaction", tx))) : tx \in TxJson}

RoleAnswers ==
    {Answer(FALSE, "CURLE_OK", 0, EmptyBody)}
    \cup FailedAnswers
    \cup {Answer(TRUE, "CURLE_OK", h, b) : h \in {399, 400, 401}, b \in {EmptyBody, TextBody}}
    \cup {Answer(TRUE, "CURLE_OK", 200, b) : b \in RoleBodies}

\* "Authorization: Bearer "
AUTH_HEADER_FORMAT ==
    <<"A", "u", "t", "h", "o", "r", "i", "z", "a", "t", "i", "o", "n", ":", " ",
      "B", "e", "a", "r", "e", "r", " ">>

\* snprintf(buf, size, ...): at most size - 1 characters are kept
snprintf(text, size) == SubSeq(text, 1, IF Len(text) < size - 1 THEN Len(text) ELSE size - 1)

\* char auth_header[MAX_TOKEN_LENGTH + 20]; snprintf(auth_header, sizeof(auth_header), ...)
auth_header(token) == snprintf(AUTH_HEADER_FORMAT \o token, MAX_TOKEN_LENGTH + 20)

\* if (!client->is_logged_in) { printf("You must login first.\n"); return false; }
must_login(c) == ~c.is_logged_in

tx_fields_found(response_json) ==
    /\ json_object_object_get_ex(response_json, "transaction")
    /\ json_object_object_get_ex(json_object_object_get(response_json, "transaction"), "hash")

role_tx_hash_cut(hash_obj) == StrncpyTerminated(json_object_get_string(hash_obj), USER_ID_SIZE)

\* const char *tx_hash = json_object_get_string(hash_obj); printf("... %s\n", tx_hash)
role_tx_hash(hash_obj) == json_object_get_string(hash_obj)

\* printf("%s") of a NULL tx_hash: the C library prints "(null)", or the
\* process is killed
HashUb == {"killed", "(null)"}

role_hash_outcomes(response_json) ==
    IF tx_fields_found(response_json)
       /\ json_object_get_string_is_null(
              json_object_object_get(json_object_object_get(response_json, "transaction"), "hash"))
    THEN HashUb ELSE {"defined"}

role_result(op, choice, c, curl, res, http_code, body, data, ub) ==
    LET base == [NoCall(op, choice, c) EXCEPT
                    !.calls = perform_count(curl, res), !.ret = "false"]
        sent == [base EXCEPT !.res = res, !.http_code = http_code, !.body = body,
                             !.bearer = [sent |-> TRUE, header |-> auth_header(c.token)]]
        response_json == json_tokener_parse(data)
        transaction_obj == json_object_object_get(response_json, "transaction")
        hash_obj == json_object_object_get(transaction_obj, "hash")
    IN  IF ~curl THEN base
        ELSE IF request_failed(res, http_code)
        THEN [sent EXCEPT !.msg = "failed", !.cause = curl_easy_strerror(res), !.shown = data]
        ELSE IF tx_fields_found(response_json)
        THEN [sent EXCEPT !.ret = IF ub = "killed" THEN "killed" ELSE "true",
                          !.msg = "role_done", !.parsed = TRUE,
                          !.tx_hash = IF ub = "defined" THEN role_tx_hash(hash_obj)
                                      ELSE IF ub = "killed" THEN <<>>
                                      ELSE <<"(", "n", "u", "l", "l", ")">>]
        ELSE [sent EXCEPT !.ret = "true", !.msg = "couldnt_parse_tx", !.parsed = TRUE]

grant_role_result(c, curl, res, http_code, body, data, ub) ==
    role_result("grant_role", 14, c, curl, res, http_code, body, data, ub)

revoke_role_result(c, curl, res, http_code, body, data, ub) ==
    role_result("revoke_role", 15, c, curl, res, http_code, body, data, ub)

grant_role ==
    /\ UNCHANGED sockvars
    /\ pc = "menu"
    /\ 14 \in display_menu
    /\ IF must_login(client)
       THEN /\ last' = [NoCall("grant_role", 14, client) EXCEPT
                           !.ret = "false", !.msg = "must_login"]
            /\ UNCHANGED <<netCalls, pc>>
       ELSE /\ netCalls < MaxCalls
            /\ \E a \in RoleAnswers :
                 \E data \in resp_data(a.body) :
                 \E ub \in role_hash_outcomes(json_tokener_parse(data)) :
                   /\ last' = grant_role_result(client, a.curl, a.res, a.http_code, a.body, data, ub)
                   /\ netCalls' = netCalls + last'.calls
                   /\ pc' = IF last'.ret = "killed" THEN "killed" ELSE pc
    /\ UNCHANGED client

revoke_role ==
    /\ UNCHANGED sockvars
    /\ pc = "menu"
    /\ 15 \in display_menu
    /\ IF must_login(client)
       THEN /\ last' = [NoCall("revoke_role", 15, client) EXCEPT
                           !.ret = "false", !.msg = "must_login"]
            /\ UNCHANGED <<netCalls, pc>>
       ELSE /\ netCalls < MaxCalls
            /\ \E a \in RoleAnswers :
                 \E data \in resp_data(a.body) :
                 \E ub \in role_hash_outcomes(json_tokener_parse(data)) :
                   /\ last' = revoke_role_result(client, a.curl, a.res, a.http_code, a.body, data, ub)
                   /\ netCalls' = netCalls + last'.calls
                   /\ pc' = IF last'.ret = "killed" THEN "killed" ELSE pc
    /\ UNCHANGED client

(***************************************************************************)
(* logout                                                                  *)
(***************************************************************************)
logout ==
    /\ UNCHANGED sockvars
    /\ pc = "menu"
    /\ 16 \in display_menu
    /\ client' = ApplyWrites(client, logout_writes(client))
    /\ last' = [NoCall("logout", 16, client) EXCEPT
                   !.msg = "logged_out",
                   !.written = Written(logout_writes(client))]
    /\ UNCHANGED <<pc, netCalls>>

(***************************************************************************)
(* main: the command loop                                                  *)
(***************************************************************************)
main_default ==
    /\ UNCHANGED sockvars
    /\ pc = "menu"
    /\ \E choice \in display_menu :
         /\ main_default_case(choice)
         /\ last' = [NoCall("main", choice, client) EXCEPT !.msg = "not_implemented"]
    /\ UNCHANGED <<client, pc, netCalls>>

\* case 0: running = false; then curl_global_cleanup(); return 0;
main_exit ==
    /\ UNCHANGED sockvars
    /\ pc = "menu"
    /\ 0 \in display_menu
    /\ pc' = "exited"
    /\ last' = [NoCall("main", 0, client) EXCEPT !.msg = "goodbye", !.ret = "0"]
    /\ UNCHANGED <<client, netCalls>>

Next ==
    \/ register_user
    \/ login
    \/ grant_role
    \/ revoke_role
    \/ logout
    \/ main_default
    \/ main_exit

Spec == Init /\ [][Next]_vars

(***************************************************************************)
(* The socket client: what the system calls may do.                        *)
(***************************************************************************)
LowestFree(open) == CHOOSE d \in Descriptors \ open : \A e \in Descriptors \ open : d <= e

\* socket(AF_INET, SOCK_STREAM, 0): -1, or the lowest free descriptor
socket(open) == {-1} \cup (IF Descriptors \ open = {} THEN {} ELSE {LowestFree(open)})

\* close(fd) of an open descriptor releases it and returns 0, or -1 when the
\* release reported an error (EIO, EINTR); of any other descriptor it returns
\* -1 (EBADF)
CloseResults(fd, open) ==
    IF fd \in open THEN {"closed", "failed_released"} ELSE {"EBADF"}

close(result) == IF result = "closed" THEN 0 ELSE -1

Released(fd, open, result) ==
    IF result \in {"closed", "failed_released"} THEN open \ {fd} ELSE open

Closing(fd, open, result) == [fd |-> fd, was_open |-> fd \in open, result |-> result]

\* the addresses main may be given; inet_pton(AF_INET, ...) returns 1 for a
\* dotted quad and 0 for any other text
DottedQuads == {<<"1", "2", "7", ".", "0", ".", "0", ".", "1">>}

ServerIps == DottedQuads \cup {<<"l", "o", "c", "a", "l", "h", "o", "s", "t">>}

inet_pton(server_ip) == IF server_ip \in DottedQuads THEN 1 ELSE 0

\* connect(sock_fd, ...) returns 0 or -1
ConnectResults == {0, -1}

\* send(sock_fd, message, len, 0): -1, or a number of bytes up to len
SendResults(fd, open, len) ==
    IF fd \notin open THEN {-1}
    ELSE {-1, len} \cup (IF len > 0 THEN {len - 1} ELSE {})

\* recv(sock_fd, buffer, buffer_size - 1, 0): -1, 0 when the peer closed (or
\* no room was given), or a number of bytes up to buffer_size - 1
RecvResults(fd, open, buffer_size) ==
    IF fd \notin open THEN {-1}
    ELSE {-1, 0} \cup (IF buffer_size > 1 THEN {1, buffer_size - 1} ELSE {})

Messages == {<<>>, <<"H", "e", "l", "l", "o", " ", "f", "r", "o", "m", " ", "c", "l", "i", "e", "n", "t">>}

BufferSizes == {1, BUFFER_SIZE}

(***************************************************************************)
(* The functions of client.c.  Each gives the state it leaves and the      *)
(* record of the call.                                                     *)
(***************************************************************************)
SockState(fd, open, conn, c) ==
    [sock_fd |-> fd, open_fds |-> open, connected |-> conn, call |-> c]

client_init_result(fd, open, conn) ==
    SockState(fd, open, conn, NoSockCall("client_init", fd, open, conn))

\* variant: a failed connect() leaves sock_fd as socket() set it
client_connect_result_keeps_fd(fd, open, conn, server_ip, s, connected_ret, closing) ==
    LET c == NoSockCall("client_connect", fd, open, conn)
    IN  IF s < 0
        THEN SockState(s, open, FALSE, [c EXCEPT !.ret = -1, !.msg = "Socket creation failed"])
        ELSE IF inet_pton(server_ip) <= 0 \/ connected_ret < 0
        THEN SockState(s, Released(s, open \cup {s}, closing), FALSE,
                       [c EXCEPT !.ret = -1, !.msg = "Connection failed", !.opened = <<s>>,
                                 !.closed = <<Closing(s, open \cup {s}, closing)>>])
        ELSE SockState(s, open \cup {s}, TRUE, [c EXCEPT !.opened = <<s>>])

client_connect_result(fd, open, conn, server_ip, s, connected_ret, closing) ==
    LET c == NoSockCall("client_connect", fd, open, conn)
    IN  IF s < 0
        THEN SockState(s, open, FALSE, [c EXCEPT !.ret = -1, !.msg = "Socket creation failed"])
        ELSE IF inet_pton(server_ip) <= 0
        THEN SockState(-1, Released(s, open \cup {s}, closing), FALSE,
                       [c EXCEPT !.ret = -1, !.msg = "Invalid address or address not supported",
                                 !.opened = <<s>>,
                                 !.closed = <<Closing(s, open \cup {s}, closing)>>])
        ELSE IF connected_ret < 0
        THEN SockState(-1, Released(s, open \cup {s}, closing), FALSE,
                       [c EXCEPT !.ret = -1, !.msg = "Connection failed", !.opened = <<s>>,
                                 !.closed = <<Closing(s, open \cup {s}, closing)>>])
        ELSE SockState(s, open \cup {s}, TRUE, [c EXCEPT !.opened = <<s>>])

client_send_message_result(fd, open, conn, message, bytes_sent) ==
    LET c == NoSockCall("client_send_message", fd, open, conn)
    IN  IF fd < 0
        THEN SockState(fd, open, conn, [c EXCEPT !.ret = -1, !.msg = "Not connected to server"])
        ELSE IF bytes_sent < 0
        THEN SockState(fd, open, conn, [c EXCEPT !.ret = -1, !.msg = "Send failed", !.sends = 1])
        ELSE IF bytes_sent < Len(message)
        THEN SockState(fd, open, conn, [c EXCEPT !.ret = -1, !.msg = "Sent only", !.sends = 1])
        ELSE SockState(fd, open, conn, [c EXCEPT !.sends = 1])

client_receive_message_result(fd, open, conn, buffer_size, bytes_received) ==
    LET c == NoSockCall("client_receive_message", fd, open, conn)
    IN  IF fd < 0
        THEN SockState(fd, open, conn, [c EXCEPT !.ret = -1, !.msg = "Not connected to server"])
        ELSE IF bytes_received < 0
        THEN SockState(fd, open, conn, [c EXCEPT !.ret = -1, !.msg = "Receive failed", !.recvs = 1])
        ELSE IF bytes_received = 0
        THEN SockState(fd, open, conn, [c EXCEPT !.msg = "Server closed connection", !.recvs = 1])
        ELSE SockState(fd, open, conn, [c EXCEPT !.ret = bytes_received, !.recvs = 1])

\* variant: sock_fd keeps the closed descriptor
client_disconnect_result_keeps_fd(op, fd, open, conn, closing) ==
    LET c == NoSockCall(op, fd, open, conn)
    IN  IF fd < 0
        THEN SockState(fd, open, conn, c)
        ELSE IF close(closing) < 0
        THEN SockState(fd, Released(fd, open, closing), conn,
                       [c EXCEPT !.ret = -1, !.msg = "Close failed",
                                 !.closed = <<Closing(fd, open, closing)>>])
        ELSE SockState(fd, Released(fd, open, closing), FALSE,
                       [c EXCEPT !.closed = <<Closing(fd, open, closing)>>])

\* client_disconnect, for itself (op = "client_disconnect") and as the body
\* of client_cleanup, which drops its return value
client_disconnect_result(op, fd, open, conn, closing) ==
    LET c == NoSockCall(op, fd, open, conn)
    IN  IF fd < 0
        THEN SockState(fd, open, conn, c)
        ELSE IF close(closing) < 0
        THEN SockState(fd, Released(fd, open, closing), conn,
                       [c EXCEPT !.ret = -1, !.msg = "Close failed",
                                 !.closed = <<Closing(fd, open, closing)>>])
        ELSE SockState(-1, Released(fd, open, closing), FALSE,
                       [c EXCEPT !.closed = <<Closing(fd, open, closing)>>])

\* if (sock_fd >= 0) client_disconnect();
client_cleanup_result(fd, open, conn, closing) ==
    LET r == client_disconnect_result("client_cleanup", fd, open, conn, closing)
    IN  [r EXCEPT !.call.ret = 0]

\* the state a call leaves
Leaves(r) ==
    /\ sock_fd' = r.sock_fd
    /\ open_fds' = r.open_fds
    /\ connected' = r.connected
    /\ call' = r.call

(***************************************************************************)
(* The functions of client.c, called in any order by a program that links  *)
(* client.c.                                                               *)
(***************************************************************************)
ApiIdle ==
    /\ client = init_client(DEFAULT_BASE_URL)
    /\ last = NoCall("init_client", 0, init_client(DEFAULT_BASE_URL))
    /\ pc = "menu"
    /\ netCalls = 0

SockSpecInit == ApiIdle /\ SockInit /\ mainrun = NoRun /\ parse = NoParse

client_init ==
    /\ mainrun = NoRun
    /\ Leaves(client_init_result(sock_fd, open_fds, connected))
    /\ UNCHANGED <<apivars, mainrun, parse>>

client_connect ==
    /\ mainrun = NoRun
    /\ \E server_ip \in ServerIps, s \in socket(open_fds), connected_ret \in ConnectResults :
         \E closing \in CloseResults(s, open_fds \cup {s}) :
           Leaves(client_connect_result(sock_fd, open_fds, connected,
                                        server_ip, s, connected_ret, closing))
    /\ UNCHANGED <<apivars, mainrun, parse>>

client_send_message ==
    /\ mainrun = NoRun
    /\ \E message \in Messages :
         \E bytes_sent \in SendResults(sock_fd, open_fds, Len(message)) :
           Leaves(client_send_message_result(sock_fd, open_fds, connected, message, bytes_sent))
    /\ UNCHANGED <<apivars, mainrun, parse>>

client_receive_message ==
    /\ mainrun = NoRun
    /\ \E buffer_size \in BufferSizes :
         \E bytes_received \in RecvResults(sock_fd, open_fds, buffer_size) :
           Leaves(client_receive_message_result(sock_fd, open_fds, connected,
                                                buffer_size, bytes_received))
    /\ UNCHANGED <<apivars, mainrun, parse>>

client_disconnect ==
    /\ mainrun = NoRun
    /\ \E closing \in CloseResults(sock_fd, open_fds) :
         Leaves(client_disconnect_result("client_disconnect", sock_fd, open_fds,
                                         connected, closing))
    /\ UNCHANGED <<apivars, mainrun, parse>>

client_cleanup ==
    /\ mainrun = NoRun
    /\ \E closing \in CloseResults(sock_fd, open_fds) :
         Leaves(client_cleanup_result(sock_fd, open_fds, connected, closing))
    /\ UNCHANGED <<apivars, mainrun, parse>>

SockNext ==
    \/ client_init
    \/ client_connect
    \/ client_send_message
    \/ client_receive_message
    \/ client_disconnect
    \/ client_cleanup

SockSpec == SockSpecInit /\ [][SockNext]_vars

(***************************************************************************)
(* client_parse_json_response.  A pointer into json_str is the index of    *)
(* the character it points at; the NULL pointer is 0.                      *)
(***************************************************************************)
QUOTE == "\""

status_key == <<QUOTE, "s", "t", "a", "t", "u", "s", QUOTE, ":", QUOTE>>

message_key == <<QUOTE, "m", "e", "s", "s", "a", "g", "e", QUOTE, ":", QUOTE>>

user_key == <<QUOTE, "u", "s", "e", "r", QUOTE, ":", QUOTE>>

Lowest(S) == CHOOSE i \in S : \A j \in S : i <= j

\* strstr(haystack, needle): the first place needle stands at, or NULL
strstr(haystack, needle) ==
    LET found == {i \in 1..(Len(haystack) - Len(needle) + 1) :
                    SubSeq(haystack, i, i + Len(needle) - 1) = needle}
    IN  IF found = {} THEN 0 ELSE Lowest(found)

\* strchr(start, ch) for a pointer start into str: the first ch at or after
\* start, or NULL
strchr(str, start, ch) ==
    LET found == {i \in start..Len(str) : str[i] = ch}
    IN  IF found = {} THEN 0 ELSE Lowest(found)

\* variant: the whole text is copied, whatever the size of the buffer
copy_field_uncut(json_str, start, end, size) == SubSeq(json_str, start, end - 1)

\* len = end - start; if (len >= size) len = size - 1;
\* strncpy(buf, start, len); buf[len] = '\0';
copy_field(json_str, start, end, size) ==
    LET len == IF end - start >= size THEN size - 1 ELSE end - start
    IN  SubSeq(json_str, start, start + len - 1)

\* where the value of a key starts and where its closing quote stands; 0 for
\* a NULL of strstr or strchr
field_start(json_str, key) ==
    IF strstr(json_str, key) = 0 THEN 0 ELSE strstr(json_str, key) + Len(key)

field_end(json_str, key) ==
    IF field_start(json_str, key) = 0 THEN 0
    ELSE strchr(json_str, field_start(json_str, key), QUOTE)

\* the buffers as the caller hands them over hold earlier text
Stale(size) == [i \in 1..(IF size - 1 < 2 THEN size - 1 ELSE 2) |-> "?"]

\* what the call returns and what the three buffers hold after it
client_parse_json_response_result(json_str, user_null, status_size, message_size, user_size) ==
    LET before == [ret |-> -1, status |-> Stale(status_size),
                   message |-> Stale(message_size), user |-> Stale(user_size)]
        status_start == field_start(json_str, status_key)
        status_end == field_end(json_str, status_key)
        message_start == field_start(json_str, message_key)
        message_end == field_end(json_str, message_key)
        user_start == field_start(json_str, user_key)
        user_end == field_end(json_str, user_key)
        with_status == [before EXCEPT
                           !.status = copy_field(json_str, status_start, status_end, status_size)]
        with_message == [with_status EXCEPT
                            !.message = copy_field(json_str, message_start, message_end,
                                                   message_size)]
    IN  IF status_start = 0 \/ status_end = 0 THEN before
        ELSE IF message_start = 0 \/ message_end = 0 THEN with_status
        ELSE IF user_null \/ user_size <= 0 THEN [with_message EXCEPT !.ret = 0]
        ELSE IF user_start = 0 \/ user_end = 0
        THEN [with_message EXCEPT !.ret = 0, !.user = <<>>]
        ELSE [with_message EXCEPT
                 !.ret = 0, !.user = copy_field(json_str, user_start, user_end, user_size)]

\* the texts a server may answer with: up to MaxPieces pieces, each a key
\* with an empty value, with a value, or with a value and no closing quote
FieldValue(key) ==
    IF key = status_key THEN <<"o", "k">>
    ELSE IF key = message_key THEN <<"h", "i">>
    ELSE <<"a", "l">>

PiecesOf(key) ==
    {key \o <<QUOTE>>, key \o FieldValue(key) \o <<QUOTE>>, key \o FieldValue(key)}

Pieces == PiecesOf(status_key) \cup PiecesOf(message_key) \cup PiecesOf(user_key)

RECURSIVE Flatten(_)
Flatten(pieces) == IF pieces = <<>> THEN <<>> ELSE Head(pieces) \o Flatten(Tail(pieces))

JsonStrs == {Flatten(p) : p \in UNION {[1..n -> Pieces] : n \in 0..MaxPieces}}

\* status_size, message_size, user_size of the call, and whether user is NULL
ParseArgs ==
    {<<2, 16, 16, FALSE>>, <<16, 2, 1, FALSE>>, <<1, 1, 2, FALSE>>, <<16, 16, 16, TRUE>>}

ParseSpecInit ==
    /\ ApiIdle /\ SockInit /\ mainrun = NoRun
    /\ \E json_str \in JsonStrs : parse = [NoParse EXCEPT !.json_str = json_str]

client_parse_json_response ==
    /\ ~parse.called
    /\ \E sizes \in ParseArgs :
         LET user_null == sizes[4]
             r == client_parse_json_response_result(parse.json_str, user_null,
                                                    sizes[1], sizes[2], sizes[3])
         IN  parse' = [called |-> TRUE, json_str |-> parse.json_str, ret |-> r.ret,
                       status |-> r.status, message |-> r.message, user |-> r.user,
                       status_size |-> sizes[1], message_size |-> sizes[2],
                       user_size |-> sizes[3], user_null |-> user_null]
    /\ UNCHANGED <<apivars, sock_fd, open_fds, connected, call, mainrun>>

ParseNext == client_parse_json_response

ParseSpec == ParseSpecInit /\ [][ParseNext]_vars

(***************************************************************************)
(* main of the socket client (src/client/src/main.c), one step per call it *)
(* makes.  mainrun.trace lists the client_* calls made so far with what    *)
(* they returned.                                                          *)
(***************************************************************************)
\* if (argc != 3)
MAIN_ARGC == 3

Argcs == {1, 2, MAIN_ARGC, 4}

PortTexts == {<<"8", "0", "8", "0">>, <<"x">>}

MainSpecInit ==
    /\ ApiIdle /\ SockInit /\ parse = NoParse
    /\ \E argc \in Argcs, server_ip \in ServerIps, port \in PortTexts :
         mainrun = [pc |-> "start", argc |-> argc, server_ip |-> server_ip,
                    port |-> atoi(port), status |-> EXIT_SUCCESS, trace |-> <<>>]

Called(r) == [op |-> r.call.op, ret |-> r.call.ret]

Exit(status, calls) ==
    [mainrun EXCEPT !.pc = "exited", !.status = status, !.trace = mainrun.trace \o calls]

Goto(label, calls) == [mainrun EXCEPT !.pc = label, !.trace = mainrun.trace \o calls]

\* if (argc != 3) { fprintf(stderr, "Usage: ..."); return EXIT_FAILURE; }
main_usage ==
    /\ mainrun.pc = "start"
    /\ mainrun.argc # MAIN_ARGC
    /\ mainrun' = Exit(EXIT_FAILURE, <<>>)
    /\ UNCHANGED <<apivars, sock_fd, open_fds, connected, call, parse>>

\* if (client_init() != 0) { ...; return EXIT_FAILURE; }
main_init ==
    /\ mainrun.pc = "start"
    /\ mainrun.argc = MAIN_ARGC
    /\ LET r == client_init_result(sock_fd, open_fds, connected)
       IN  /\ Leaves(r)
           /\ mainrun' = IF r.call.ret # 0 THEN Exit(EXIT_FAILURE, <<Called(r)>>)
                         ELSE Goto("connect", <<Called(r)>>)
    /\ UNCHANGED <<apivars, parse>>

\* if (client_connect(server_ip, port) != 0) { ...; client_cleanup(); return EXIT_FAILURE; }
main_connect ==
    /\ mainrun.pc = "connect"
    /\ \E s \in socket(open_fds), connected_ret \in ConnectResults :
         \E closing \in CloseResults(s, open_fds \cup {s}) :
           LET r == client_connect_result(sock_fd, open_fds, connected,
                                          mainrun.server_ip, s, connected_ret, closing)
           IN  IF r.call.ret # 0
               THEN \E closing2 \in CloseResults(r.sock_fd, r.open_fds) :
                      LET r2 == client_cleanup_result(r.sock_fd, r.open_fds, r.connected, closing2)
                      IN  /\ Leaves(r2)
                          /\ mainrun' = Exit(EXIT_FAILURE, <<Called(r), Called(r2)>>)
               ELSE /\ Leaves(r)
                    /\ mainrun' = Goto("send", <<Called(r)>>)
    /\ UNCHANGED <<apivars, parse>>

\* const char *message = "Hello from client";
MainMessage == <<"H", "e", "l", "l", "o", " ", "f", "r", "o", "m", " ", "c", "l", "i", "e", "n", "t">>

\* if (client_send_message(message) != 0) ... else ...: both go on
main_send_message ==
    /\ mainrun.pc = "send"
    /\ \E bytes_sent \in SendResults(sock_fd, open_fds, Len(MainMessage)) :
         LET r == client_send_message_result(sock_fd, open_fds, connected, MainMessage, bytes_sent)
         IN  /\ Leaves(r)
             /\ mainrun' = Goto("receive", <<Called(r)>>)
    /\ UNCHANGED <<apivars, parse>>

\* if (client_receive_message(buffer, sizeof(buffer)) > 0) ... else ...: both go on
main_receive_message ==
    /\ mainrun.pc = "receive"
    /\ \E bytes_received \in RecvResults(sock_fd, open_fds, BUFFER_SIZE) :
         LET r == client_receive_message_result(sock_fd, open_fds, connected,
                                                BUFFER_SIZE, bytes_received)
         IN  /\ Leaves(r)
             /\ mainrun' = Goto("disconnect", <<Called(r)>>)
    /\ UNCHANGED <<apivars, parse>>

\* variant: main goes to client_cleanup without client_disconnect
main_disconnect_skipped ==
    /\ mainrun.pc = "disconnect"
    /\ mainrun' = Goto("cleanup", <<>>)
    /\ UNCHANGED <<apivars, sock_fd, open_fds, connected, call, parse>>

\* client_disconnect();
main_disconnect ==
    /\ mainrun.pc = "disconnect"
    /\ \E closing \in CloseResults(sock_fd, open_fds) :
         LET r == client_disconnect_result("client_disconnect", sock_fd, open_fds,
                                           connected, closing)
         IN  /\ Leaves(r)
             /\ mainrun' = Goto("cleanup", <<Called(r)>>)
    /\ UNCHANGED <<apivars, parse>>

\* client_cleanup(); printf("Client terminated\n"); return EXIT_SUCCESS;
main_cleanup ==
    /\ mainrun.pc = "cleanup"
    /\ \E closing \in CloseResults(sock_fd, open_fds) :
         LET r == client_cleanup_result(sock_fd, open_fds, connected, closing)
         IN  /\ Leaves(r)
             /\ mainrun' = Exit(EXIT_SUCCESS, <<Called(r)>>)
    /\ UNCHANGED <<apivars, parse>>

MainNext ==
    \/ main_usage
    \/ main_init
    \/ main_connect
    \/ main_send_message
    \/ main_receive_message
    \/ main_disconnect
    \/ main_cleanup

MainSpec == MainSpecInit /\ [][MainNext]_vars
(***************************************************************************)
(* Helpers of the properties.                                              *)
(***************************************************************************)
AuthOps == {"login", "register_user"}

RoleOps == {"grant_role", "revoke_role"}

Prefix(s, n) == [i \in 1..(IF Len(s) < n THEN Len(s) ELSE n) |-> s[i]]

HasMember(v, key) == v.t = "object" /\ \E i \in 1..Len(v.kv) : v.kv[i].k = key

MemberOf(v, key) == v.kv[CHOOSE i \in 1..Len(v.kv) : v.kv[i].k = key].v

BodyHasToken(body) == body.kind = "json" /\ HasMember(body.v, "token")

BodyHasUserId(body) ==
    /\ body.kind = "json"
    /\ HasMember(body.v, "user")
    /\ HasMember(MemberOf(body.v, "user"), "id")

BodyToken(body) == MemberOf(body.v, "token")

BodyUserId(body) == MemberOf(MemberOf(body.v, "user"), "id")

\* the last handler got an HTTP answer below 400 over a working transport
GotSuccess == last.res = "CURLE_OK" /\ last.http_code < 400

\* ... carrying user.id and token as JSON strings
GotStringSession ==
    /\ last.op \in AuthOps
    /\ GotSuccess
    /\ BodyHasToken(last.body) /\ BodyHasUserId(last.body)
    /\ BodyToken(last.body).t = "string" /\ BodyUserId(last.body).t = "string"

\* the outcome the handler acted on: the failure branch names its cause
\* through curl_easy_strerror, the other branch goes on to parse the body
Outcome ==
    IF last.msg = "failed"
    THEN (IF last.cause = "No error" THEN "HttpError" ELSE "TransportError")
    ELSE IF last.parsed THEN "Success" ELSE "none"

(***************************************************************************)
(* C1: in every state of a running client, is_logged_in is true if and     *)
(* only if the stored token and the stored user_id are both non-empty.     *)
(***************************************************************************)
C1_LoggedInIffBothPresent ==
    pc # "killed" =>
        (client.is_logged_in <=> (client.token # <<>> /\ client.user_id # <<>>))

(***************************************************************************)
(* C2: grant_role or revoke_role invoked while no bearer token is stored   *)
(* ends with "You must login first", returns false and makes no network    *)
(* call.                                                                   *)
(***************************************************************************)
C2_NoTokenNoNetwork ==
    (last.op \in RoleOps /\ last.pre.token = <<>>) =>
        (last.msg = "must_login" /\ last.ret = "false" /\ last.calls = 0)

(***************************************************************************)
(* C3: a handler that has returned either assigned none of token, user_id  *)
(* and is_logged_in, or assigned all three; every field it did not assign  *)
(* has its value from before the call.                                     *)
(***************************************************************************)
C3_AtomicSession ==
    last.ret # "killed" =>
        /\ last.written \in {{}, SessionFields}
        /\ \A f \in SessionFields \ last.written : client[f] = last.pre[f]

C3_Witness ==
    /\ last.op = "login" /\ last.msg = "session_set"
    /\ last.pre.is_logged_in
    /\ client.user_id # last.pre.user_id /\ client.token # last.pre.token

(***************************************************************************)
(* C4, as claimed: after a success response carrying user.id = u and       *)
(* token = t, user_id is exactly u, token is exactly t and is_logged_in is *)
(* true, whatever the lengths of u and t.                                  *)
(***************************************************************************)
C4_ExactRoundTrip ==
    GotStringSession =>
        /\ client.user_id = BodyUserId(last.body).s
        /\ client.token = BodyToken(last.body).s
        /\ client.is_logged_in

(***************************************************************************)
(* C4, amended: after a success response carrying user.id = u and          *)
(* token = t as JSON strings, user_id is the first 63 characters of u,     *)
(* token is the first 511 characters of t, and is_logged_in is true.       *)
(***************************************************************************)
C4_TruncatedRoundTrip ==
    GotStringSession =>
        /\ client.user_id = Prefix(BodyUserId(last.body).s, USER_ID_SIZE - 1)
        /\ client.token = Prefix(BodyToken(last.body).s, MAX_TOKEN_LENGTH - 1)
        /\ client.is_logged_in

C4_Witness ==
    /\ GotStringSession /\ last.op = "register_user"
    /\ Len(BodyToken(last.body).s) = MAX_TOKEN_LENGTH
    /\ Len(client.token) = MAX_TOKEN_LENGTH - 1
    /\ Len(BodyUserId(last.body).s) = USER_ID_SIZE
    /\ Len(client.user_id) = USER_ID_SIZE - 1

(***************************************************************************)
(* C5: after login or register got a success response whose body lacks     *)
(* token or lacks user.id, the session equals its value before the call,   *)
(* the handler printed the "couldn't parse response" message and returned  *)
(* true.                                                                   *)
(***************************************************************************)
C5_MissingFieldSoftDegrade ==
    (/\ last.op \in AuthOps
     /\ GotSuccess
     /\ (~BodyHasToken(last.body) \/ ~BodyHasUserId(last.body))) =>
        (client = last.pre /\ last.msg = "couldnt_parse" /\ last.ret = "true")

C5_Witness ==
    /\ last.op = "login" /\ GotSuccess
    /\ last.pre.is_logged_in
    /\ BodyHasUserId(last.body) /\ ~BodyHasToken(last.body)
    /\ BodyUserId(last.body).t = "string"
    /\ BodyUserId(last.body).s # last.pre.user_id
    /\ client = last.pre

(***************************************************************************)
(* C6: after login or register ran into a transport failure or a status    *)
(* >= 400, the handler returned false, printed the received body as it     *)
(* came, did not parse it, and the session equals its value before the     *)
(* call.                                                                   *)
(***************************************************************************)
C6_FailureKeepsSession ==
    (/\ last.op \in AuthOps
     /\ last.calls = 1
     /\ (last.res # "CURLE_OK" \/ last.http_code >= 400)) =>
        /\ last.ret = "false" /\ last.msg = "failed"
        /\ (last.body.kind # "empty" => last.shown = last.body)
        /\ ~last.parsed
        /\ client = last.pre

C6_Witness ==
    /\ last.op = "login" /\ last.res = "CURLE_OK" /\ last.http_code = 400
    /\ BodyHasUserId(last.body) /\ BodyHasToken(last.body)
    /\ BodyToken(last.body).t = "string" /\ BodyToken(last.body).s # last.pre.token
    /\ last.pre.is_logged_in
    /\ last.shown = last.body

(***************************************************************************)
(* C7: a handler that made its network call acts on TransportError when    *)
(* the transport failed, whatever the status; on HttpError when the        *)
(* transport worked and the status is >= 400, whatever the body; and on    *)
(* Success in every other case.                                            *)
(***************************************************************************)
C7_Classification ==
    last.calls = 1 =>
        Outcome = (IF last.res # "CURLE_OK" THEN "TransportError"
                   ELSE IF last.http_code >= 400 THEN "HttpError"
                   ELSE "Success")

C7_Witness ==
    /\ last.op = "grant_role" /\ last.calls = 1
    /\ last.res = "CURLE_COULDNT_CONNECT" /\ last.http_code = 200
    /\ Outcome = "TransportError"

(***************************************************************************)
(* C8: one handler invocation makes at most one network call, also after   *)
(* a transport failure or an HTTP error.                                   *)
(***************************************************************************)
C8_SingleAttempt ==
    [][netCalls' <= netCalls + 1 /\ last'.calls <= 1]_vars

C8_Witness ==
    /\ last.op = "login" /\ last.res = "CURLE_COULDNT_CONNECT" /\ last.calls = 1
    /\ netCalls = 2

(***************************************************************************)
(* C9: logout, from any session, makes no network call, prints "Logged     *)
(* out successfully" and leaves token empty, user_id empty and             *)
(* is_logged_in false.                                                     *)
(***************************************************************************)
C9_LogoutClears ==
    [][logout =>
         /\ netCalls' = netCalls /\ last'.calls = 0
         /\ last'.msg = "logged_out"
         /\ client'.token = <<>> /\ client'.user_id = <<>> /\ ~client'.is_logged_in]_vars

C9_Witness ==
    /\ last.op = "logout"
    /\ last.pre.is_logged_in /\ last.pre.token # <<>> /\ last.pre.user_id # <<>>
    /\ client.token = <<>>

(***************************************************************************)
(* C10: logout applied to the result of logout changes nothing, and logout *)
(* applied to the session init_client built leaves it as it is, base_url   *)
(* included.                                                               *)
(***************************************************************************)
C10_LogoutIdempotent ==
    [][logout =>
         /\ ApplyWrites(client', logout_writes(client')) = client'
         /\ (client = init_client(client.base_url) => client' = client)]_vars

C10_Witness ==
    /\ last.op = "logout"
    /\ last.pre = init_client(last.pre.base_url)
    /\ client = last.pre
    /\ netCalls > 0

(***************************************************************************)
(* C11: a step that changes token, user_id or is_logged_in is a step of    *)
(* login, register_user or logout; grant_role, revoke_role and the         *)
(* unimplemented menu choices leave the three fields as they are; no step  *)
(* changes base_url.                                                       *)
(***************************************************************************)
C11_OnlyAuthAndLogoutWrite ==
    [][/\ (\E f \in SessionFields : client'[f] # client[f])
            => last'.op \in {"login", "register_user", "logout"}
       /\ last'.op \in {"grant_role", "revoke_role", "main"}
            => \A f \in SessionFields : client'[f] = client[f]
       /\ client'.base_url = client.base_url]_vars

C11_Witness ==
    /\ last.op = "grant_role" /\ last.msg = "role_done"
    /\ last.pre.is_logged_in /\ last.pre.token # <<>>
    /\ client = last.pre

\* the token a request carried: what follows "Authorization: Bearer "
BearerToken(header) == SubSeq(header, Len(AUTH_HEADER_FORMAT) + 1, Len(header))

(***************************************************************************)
(* C12: a request that reached the network carries the Authorization       *)
(* header if and only if it is a grant_role or revoke_role request and a   *)
(* token is stored; login and register_user requests never carry it, and   *)
(* every grant_role or revoke_role request carries it with a non-empty     *)
(* token.                                                                  *)
(***************************************************************************)
C12_BearerIffAuthAndToken ==
    last.calls = 1 =>
        /\ last.bearer.sent <=> (last.op \in RoleOps /\ last.pre.token # <<>>)
        /\ last.op \in AuthOps => ~last.bearer.sent
        /\ last.op \in RoleOps =>
             (last.bearer.sent /\ BearerToken(last.bearer.header) # <<>>)

\* the text sent under a key of the register payload
PayloadText(key) == MemberOf(last.payload, key).s

(***************************************************************************)
(* C13: no register request reaches the network with a username shorter    *)
(* than 3 characters or a password shorter than 8 characters.              *)
(***************************************************************************)
C13_RegisterValidates ==
    (last.op = "register_user" /\ last.calls = 1) =>
        (Len(PayloadText("username")) >= 3 /\ Len(PayloadText("password")) >= 8)

(***************************************************************************)
(* C14: in the register payload, dateOfBirth (phoneNumber) is present if   *)
(* and only if the line typed for it is not empty, and then carries that   *)
(* line; username, email, password and fullName are always present.        *)
(***************************************************************************)
C14_OptionalKeys ==
    last.op = "register_user" =>
        /\ \A key \in {"username", "email", "password", "fullName"} :
             HasMember(last.payload, key)
        /\ HasMember(last.payload, "dateOfBirth") <=> last.input.date_of_birth # <<>>
        /\ HasMember(last.payload, "phoneNumber") <=> last.input.phone_number # <<>>
        /\ HasMember(last.payload, "dateOfBirth") =>
             (PayloadText("dateOfBirth") = last.input.date_of_birth
              /\ PayloadText("dateOfBirth") # <<>>)
        /\ HasMember(last.payload, "phoneNumber") =>
             (PayloadText("phoneNumber") = last.input.phone_number
              /\ PayloadText("phoneNumber") # <<>>)

C14_Witness ==
    /\ last.op = "register_user" /\ last.calls = 1
    /\ last.input.date_of_birth = <<>> /\ last.input.phone_number # <<>>
    /\ ~HasMember(last.payload, "dateOfBirth") /\ HasMember(last.payload, "phoneNumber")

\* members of the answer the last handler got
BodyUser == MemberOf(last.body.v, "user")

BodyHasUser == last.body.kind = "json" /\ HasMember(last.body.v, "user")

IsScalar(v) == v.t \in {"string", "int"}

\* the member is there and is a string
ResolvesToText(v, key) == HasMember(v, key) /\ MemberOf(v, key).t = "string"

\* login went through the session update and printed its welcome
LoginWelcomed == last.op = "login" /\ last.msg = "session_set"

(***************************************************************************)
(* C15: a login that set the session shows user.fullName when that is a    *)
(* text, otherwise user.username when that is a text, otherwise "User".    *)
(***************************************************************************)
C15_DisplayNameChain ==
    LoginWelcomed =>
        last.display_name =
            (IF ResolvesToText(BodyUser, "fullName") THEN MemberOf(BodyUser, "fullName").s
             ELSE IF ResolvesToText(BodyUser, "username") THEN MemberOf(BodyUser, "username").s
             ELSE <<"U", "s", "e", "r">>)

(***************************************************************************)
(* C16: on a success response where user is not an object, or user.id or   *)
(* token is present but not a scalar, login and register_user leave the    *)
(* session as it was, print the "couldn't parse response" message and      *)
(* return true; a user.roles that is not an array is not printed by login. *)
(***************************************************************************)
C16_KindMismatchIsAbsent ==
    /\ (/\ last.op \in AuthOps /\ GotSuccess
        /\ \/ (BodyHasUser /\ BodyUser.t # "object")
           \/ (BodyHasUserId(last.body) /\ ~IsScalar(BodyUserId(last.body)))
           \/ (BodyHasToken(last.body) /\ ~IsScalar(BodyToken(last.body))))
         => (client = last.pre /\ last.msg = "couldnt_parse" /\ last.ret = "true")
    /\ (/\ last.op = "login" /\ GotSuccess /\ BodyHasUser
        /\ HasMember(BodyUser, "roles") /\ MemberOf(BodyUser, "roles").t # "array")
         => (~last.roles.printed /\ last.ret = "true")

(***************************************************************************)
(* C17: a handler that got a success response with an empty body or a body *)
(* that is not JSON prints its "couldn't parse" message, returns true and  *)
(* leaves the session as it was.                                           *)
(***************************************************************************)
C17_UnparsedBodyDegrades ==
    (last.calls = 1 /\ GotSuccess /\ last.body.kind \in {"empty", "text"}) =>
        /\ last.ret = "true"
        /\ last.msg = (IF last.op \in AuthOps THEN "couldnt_parse" ELSE "couldnt_parse_tx")
        /\ client = last.pre

C17_Witness ==
    /\ last.op = "login" /\ last.calls = 1 /\ GotSuccess
    /\ last.body.kind = "empty"
    /\ last.pre.is_logged_in /\ last.pre.token # <<>>
    /\ last.msg = "couldnt_parse" /\ client = last.pre

\* texts joined by ", "
RECURSIVE JoinComma(_)
JoinComma(texts) ==
    IF texts = <<>> THEN <<>>
    ELSE IF Len(texts) = 1 THEN texts[1]
    ELSE texts[1] \o <<",", " ">> \o JoinComma(Tail(texts))

BodyRoles == MemberOf(BodyUser, "roles")

(***************************************************************************)
(* C18: when the answer to login holds user.roles as an array of texts,    *)
(* the roles line shows the elements in the order of the array, joined by  *)
(* ", ", with nothing after the last one; an empty array shows no name.    *)
(***************************************************************************)
C18_RolesInOrder ==
    (LoginWelcomed /\ HasMember(BodyUser, "roles") /\ BodyRoles.t = "array") =>
        /\ last.roles.printed
        /\ last.roles.text = JoinComma([i \in 1..Len(BodyRoles.a) |-> BodyRoles.a[i].s])

C18_Witness ==
    /\ LoginWelcomed /\ HasMember(BodyUser, "roles") /\ BodyRoles.t = "array"
    /\ Len(BodyRoles.a) = 3
    /\ BodyRoles.a[1] = BodyRoles.a[3] /\ BodyRoles.a[1] # BodyRoles.a[2]
    /\ last.roles.text = <<"U", "R", ",", " ", "A", "R", ",", " ", "U", "R">>

BodyHasHash ==
    /\ last.body.kind = "json"
    /\ HasMember(last.body.v, "transaction")
    /\ HasMember(MemberOf(last.body.v, "transaction"), "hash")

BodyHash == MemberOf(MemberOf(last.body.v, "transaction"), "hash")

(***************************************************************************)
(* C19: grant_role and revoke_role, on a success response carrying         *)
(* transaction.hash = h as a text, show exactly h as the transaction hash  *)
(* and return true; when transaction or transaction.hash is missing they   *)
(* return true with the "couldn't parse transaction details" message.      *)
(***************************************************************************)
C19_HashReported ==
    (last.op \in RoleOps /\ GotSuccess) =>
        /\ (BodyHasHash /\ BodyHash.t = "string") =>
             (last.ret = "true" /\ last.msg = "role_done" /\ last.tx_hash = BodyHash.s)
        /\ ~BodyHasHash => (last.ret = "true" /\ last.msg = "couldnt_parse_tx")

C19_Witness ==
    /\ last.op = "revoke_role" /\ GotSuccess /\ BodyHasHash
    /\ BodyHash.t = "string" /\ Len(BodyHash.s) > USER_ID_SIZE
    /\ last.tx_hash = BodyHash.s

(***************************************************************************)
(* C20: a menu choice that is no implemented operation prints the "not     *)
(* implemented" notice, makes no network call and leaves the session as it *)
(* is; the loop is left only through choice 0, with exit status 0; every   *)
(* other choice comes back to the menu.                                    *)
(***************************************************************************)
C20_MenuLoop ==
    [][/\ (last'.op = "main" /\ last'.choice # 0) =>
            /\ last'.msg = "not_implemented"
            /\ netCalls' = netCalls /\ client' = client
       /\ (pc = "menu" /\ pc' # "menu") =>
            (last'.op = "main" /\ last'.choice = 0 /\ pc' = "exited" /\ last'.ret = "0")
       /\ (pc = "menu" /\ last'.choice # 0) => pc' = "menu"]_vars

(***************************************************************************)
(* C21: over any run, a grant_role or revoke_role request reaches the      *)
(* network only while the session is the one a login or register_user set  *)
(* (none at startup, none after logout), and the token in its              *)
(* Authorization header is the token that login or register_user stored.   *)
(***************************************************************************)
C21_RoleCallsCarrySessionToken ==
    /\ ~client.is_logged_in
    /\ [][/\ (last'.op \in RoleOps /\ last'.calls = 1) =>
                /\ client.is_logged_in
                /\ last'.bearer.sent
                /\ BearerToken(last'.bearer.header) = client.token
          /\ (client'.is_logged_in /\ (~client.is_logged_in \/ client'.token # client.token)) =>
                (last'.op \in AuthOps /\ last'.msg = "session_set")
          /\ last'.op = "logout" => ~client'.is_logged_in]_vars

(***************************************************************************)
(* The socket client.  connected is the history of the calls: a            *)
(* client_connect that returned 0 raises it, a client_connect that         *)
(* returned -1 and a close that succeeded in client_disconnect lower it.   *)
(***************************************************************************)
TrafficOps == {"client_send_message", "client_receive_message"}

ClosingOps == {"client_disconnect", "client_cleanup"}

\* the call passed a descriptor to close and close returned 0
ClosedOne(c) == c.closed # <<>> /\ c.closed[1].result = "closed"

(***************************************************************************)
(* C23: while no connection stands (no client_connect yet, the last        *)
(* client_connect failed, or client_disconnect closed the socket),         *)
(* client_send_message and client_receive_message return -1 and call       *)
(* neither send nor recv.                                                  *)
(***************************************************************************)
C23_NotConnectedNoTraffic ==
    (call.op \in TrafficOps /\ ~call.pre.connected) =>
        (call.ret = -1 /\ call.sends = 0 /\ call.recvs = 0)

C23_Witness ==
    /\ call.op = "client_receive_message" /\ ~call.pre.connected
    /\ call.pre.open_fds # {}
    /\ call.ret = -1 /\ call.recvs = 0 /\ call.msg = "Not connected to server"

(***************************************************************************)
(* C24: at most one socket descriptor is open at any time, and when        *)
(* client_cleanup has returned without a failed close no descriptor that   *)
(* client_connect opened is still open.                                    *)
(***************************************************************************)
C24_NoDescriptorLeak ==
    /\ Cardinality(open_fds) <= 1
    /\ (call.op = "client_cleanup" /\ (call.closed = <<>> \/ ClosedOne(call))) => open_fds = {}

(***************************************************************************)
(* C25: client_disconnect on a client without a connection returns 0 and   *)
(* closes nothing; a close that succeeded leaves the client disconnected,  *)
(* and the client_disconnect or client_cleanup that follows it closes      *)
(* nothing.                                                                *)
(***************************************************************************)
C25_DisconnectIdempotent ==
    [][/\ (call'.op = "client_disconnect" /\ ~connected) =>
            /\ call'.ret = 0 /\ call'.closed = <<>>
            /\ sock_fd' = sock_fd /\ open_fds' = open_fds /\ ~connected'
       /\ (call'.op \in ClosingOps /\ ClosedOne(call')) => (sock_fd' = -1 /\ ~connected')
       /\ (call.op \in ClosingOps /\ ClosedOne(call) /\ call'.op \in ClosingOps) =>
            call'.closed = <<>>]_vars

C25_Witness ==
    /\ call.op = "client_disconnect" /\ ~call.pre.connected
    /\ call.pre.sock_fd = -1 /\ call.pre.open_fds = {}
    /\ call.ret = 0 /\ call.closed = <<>> /\ sock_fd = -1

\* the calls of main so far, by name
TraceOps == [i \in 1..Len(mainrun.trace) |-> mainrun.trace[i].op]

CountOf(op) == Cardinality({i \in 1..Len(mainrun.trace) : mainrun.trace[i].op = op})

ConnectedAt(j) == mainrun.trace[j].op = "client_connect" /\ mainrun.trace[j].ret = 0

ConnectFailedAt(j) == mainrun.trace[j].op = "client_connect" /\ mainrun.trace[j].ret # 0

(***************************************************************************)
(* C26: in the run of main, client_send_message and client_receive_message *)
(* are called only after a client_connect that returned 0; a failed        *)
(* client_connect ends the run with EXIT_FAILURE after client_cleanup and  *)
(* without send or receive; a run that connected calls each of send and    *)
(* receive exactly once, the receive whatever the send returned; and a run *)
(* that ends with EXIT_SUCCESS has called client_disconnect.               *)
(***************************************************************************)
C26_MainRun ==
    /\ \A i \in 1..Len(mainrun.trace) :
         mainrun.trace[i].op \in TrafficOps => \E j \in 1..(i - 1) : ConnectedAt(j)
    /\ (\E j \in 1..Len(mainrun.trace) : ConnectFailedAt(j)) =>
         /\ mainrun.pc = "exited" /\ mainrun.status = EXIT_FAILURE
         /\ mainrun.trace[Len(mainrun.trace)].op = "client_cleanup"
         /\ CountOf("client_send_message") = 0 /\ CountOf("client_receive_message") = 0
    /\ CountOf("client_send_message") <= 1 /\ CountOf("client_receive_message") <= 1
    /\ (mainrun.pc = "exited" /\ \E j \in 1..Len(mainrun.trace) : ConnectedAt(j)) =>
         /\ mainrun.status = EXIT_SUCCESS
         /\ TraceOps = <<"client_init", "client_connect", "client_send_message",
                         "client_receive_message", "client_disconnect", "client_cleanup">>
    /\ (mainrun.pc = "exited" /\ mainrun.status = EXIT_SUCCESS) =>
         CountOf("client_disconnect") = 1

C26_Witness ==
    /\ mainrun.pc = "exited" /\ mainrun.status = EXIT_SUCCESS
    /\ \E i \in 1..(Len(mainrun.trace) - 1) :
         /\ mainrun.trace[i].op = "client_send_message" /\ mainrun.trace[i].ret = -1
         /\ mainrun.trace[i + 1].op = "client_receive_message" /\ mainrun.trace[i + 1].ret > 0
    /\ CountOf("client_disconnect") = 1

\* the text holds the key with a quote somewhere after it
HasField(text, key) ==
    \E i \in 1..Len(text) :
        /\ i + Len(key) - 1 <= Len(text)
        /\ \A k \in 1..Len(key) : text[i + k - 1] = key[k]
        /\ \E j \in (i + Len(key))..Len(text) : text[j] = QUOTE

\* the text from the end of the first key up to the next quote
RECURSIVE UpToQuote(_)
UpToQuote(text) ==
    IF text = <<>> \/ Head(text) = QUOTE THEN <<>> ELSE <<Head(text)>> \o UpToQuote(Tail(text))

RECURSIVE AfterKey(_, _)
AfterKey(text, key) ==
    IF Len(text) < Len(key) THEN <<>>
    ELSE IF SubSeq(text, 1, Len(key)) = key THEN SubSeq(text, Len(key) + 1, Len(text))
    ELSE AfterKey(Tail(text), key)

FieldText(text, key) == UpToQuote(AfterKey(text, key))

(***************************************************************************)
(* C22: client_parse_json_response returns 0 exactly when the text holds   *)
(* "status":" and "message":" each with a quote after it, and -1           *)
(* otherwise; on 0 the status and message buffers hold the text from the   *)
(* key to the next quote, cut to the buffer size minus one, and a user     *)
(* buffer holds the user text cut the same way, or the empty string when   *)
(* the user key or its closing quote is missing.                           *)
(***************************************************************************)
C22_ParseFields ==
    parse.called =>
        /\ parse.ret \in {0, -1}
        /\ parse.ret = 0 <=> (HasField(parse.json_str, status_key)
                              /\ HasField(parse.json_str, message_key))
        /\ parse.ret = 0 =>
             /\ parse.status = Prefix(FieldText(parse.json_str, status_key), parse.status_size - 1)
             /\ parse.message = Prefix(FieldText(parse.json_str, message_key), parse.message_size - 1)
             /\ ~parse.user_null =>
                  parse.user = (IF HasField(parse.json_str, user_key)
                                THEN Prefix(FieldText(parse.json_str, user_key), parse.user_size - 1)
                                ELSE <<>>)

C22_Witness ==
    /\ parse.called /\ parse.ret = 0 /\ ~parse.user_null
    /\ strstr(parse.json_str, user_key) # 0 /\ ~HasField(parse.json_str, user_key)
    /\ parse.user = <<>>
    /\ parse.status # <<>>
    /\ Len(parse.status) < Len(FieldText(parse.json_str, status_key))
====
